---- MODULE Spec2Model ----
(***************************************************************************)
(* Model of the self-update engine of auto_updata.                         *)
(*                                                                         *)
(*   Spec          the Updater controller of auto_updata/auto_updata.py:   *)
(*                 start_check, the worker thread running _check_update,  *)
(*                 the atexit hook, apply_update and the launched batch    *)
(*                 script.                                                 *)
(*   SpecDownload  one call of download_update, streamed chunk by chunk,   *)
(*                 in both variants (auto_updata/auto_updata.py and        *)
(*                 updata.py).                                             *)
(*   SpecBackup    one call of backup_current_version of updata.py.        *)
(*   SpecFair      Spec with every worker thread scheduled fairly.         *)
(*   SpecApply     one call of apply_update and the run of the script it   *)
(*                 launches, in both variants.                             *)
(*   SpecRetry     one call of a function wrapped by retry_operation, in   *)
(*                 both variants.                                          *)
(*   SpecShared    several calls of backup_current_version, each followed  *)
(*                 by its script, in one backup root.                      *)
(*                                                                         *)
(* Optional values (Python None) are sequences: <<>> is None, <<v>> is v.  *)
(***************************************************************************)
EXTENDS Integers, Sequences, FiniteSets, TLC

\* ------------------------------------------------------------------ bounds
MaxThreads == 2   \* worker threads start_check may create in one run
MaxLen == 4       \* bytes in the longest artifact body the server sends
MaxOld == 2       \* backups of earlier runs in the backup root, at most
MaxKeep == 2      \* the configured MAX_BACKUP_COUNT is in 0..MaxKeep
MaxRetry == 3     \* the configured MAX_RETRY is in 1..MaxRetry
MaxSnapshots == 2 \* snapshot operations that share one backup root
MaxTime == 2      \* seconds the clock advances while they run

VARIABLES
    \* --- Updater fields (auto_updata.py 444-449)
    is_checking,     \* self._is_checking
    update_info,     \* self._update_info : <<>> or <<version>>
    update_file,     \* self._update_file : <<>> or <<file id>>
    \* --- worker threads created by start_check
    thr,             \* thr[t] = [pc, feed, info, file, outcome] of thread t
    nthreads,        \* threads created so far
    callbacks,       \* which callbacks the host registered: [avail, complete]
    avail_calls,     \* avail_calls[t]: the descriptors thread t passed to
                     \* on_update_available, in order
    complete_calls,  \* complete_calls[t]: on_check_complete calls of thread t
    check_thread,    \* self._check_thread : <<>> or <<thread>>
    wait_result,     \* what the host's last wait_for_check returned: <<>> before
                     \* any return and after the host's next call, else <<bool>>
    \* --- host process, exit hook and apply_update
    host,            \* "running", "atexit", "launched", "exiting", "exited"
    apply_called,    \* apply_update was invoked by the hook
    CONFIG_file,     \* CURRENT_VERSION persisted in update_config.json
    disk,            \* ids of the temporary artifact files that exist
    temp_dir,        \* the scratch directory: "none", "empty", "full", "deleted"
    \* --- the launched update script (a separate process)
    script,          \* "none", "launched", "extracted", "copied", "done", "failed"
    script_arg,      \* <<zip id, version>> the script was generated with
    installed,       \* what the installation directory holds: a version, or
                     \* "partial" after a copy of an incomplete scratch directory
    overwritten_live, \* an installed file was replaced while the host was alive
    \* --- one call of download_update (SpecDownload)
    dl,              \* the call's inputs, position, temporary file and result
    \* --- one call of backup_current_version (SpecBackup)
    bk,              \* the call's trees, position, digests and result
    \* --- one call of apply_update and the script it launches (SpecApply)
    ap,              \* the call's inputs and position, the script's position
    \* --- one call of a function wrapped by retry_operation (SpecRetry)
    rt,              \* the wrapped operation, the attempts made and the result
    \* --- snapshots of several instances in one backup root (SpecShared)
    sh               \* the clock, the backup root, each snapshot's position

cvars == <<is_checking, update_info, update_file, thr, nthreads, callbacks, avail_calls, complete_calls, host, apply_called,
           CONFIG_file, disk, temp_dir, script, script_arg, installed,
           overwritten_live, check_thread, wait_result>>

Threads == 1..MaxThreads
\* CONFIG["CURRENT_VERSION"] as loaded at import (default "1.0.0")
CURRENT_VERSION == 1

\* the versions a feed may announce: 0 is a string that does not parse, then
\* one older than, one equal to and two newer than the current version
Versions == 0..(CURRENT_VERSION + 2)

\* ------------------------------------------------------------ pure helpers
Truthy(opt) == opt # <<>>

\* is_valid_version: version 0 stands for a string packaging cannot parse
is_valid_version(v) == v # 0

\* (mutant) an equal version counts as an update
check_update_result_mut(feed) ==
    IF feed = <<>> THEN <<>>
    ELSE IF ~is_valid_version(feed[1]) THEN <<>>
    ELSE IF feed[1] >= CURRENT_VERSION THEN feed
    ELSE <<>>

\* the comparison of check_update (auto_updata.py 276-284): the descriptor is
\* returned only for a valid version strictly greater than the current one
check_update_result(feed) ==
    IF feed = <<>> THEN <<>>                         \* request/JSON error
    ELSE IF ~is_valid_version(feed[1]) THEN <<>>
    ELSE IF feed[1] > CURRENT_VERSION THEN feed
    ELSE <<>>

\* Updater.has_update (auto_updata.py 536-539)
has_update == Truthy(update_file) /\ Truthy(update_info)

\* the guard of _apply_pending_update (auto_updata.py 523-530): returns early
\* unless both fields are set and the descriptor carries a version
hook_applies_mut ==
    /\ ~is_checking
    /\ Truthy(update_file) /\ Truthy(update_info)
    /\ is_valid_version(update_info[1])
hook_applies ==
    /\ Truthy(update_file) /\ Truthy(update_info)
    /\ is_valid_version(update_info[1])

\* the guard of start_check (auto_updata.py 456-458)
start_check_rejects == is_checking

Running(t) == thr[t].pc \notin {"new", "done", "killed"}
RunningThreads == {t \in Threads : Running(t)}

\* what the feed may answer to one request: an error, or a version
Feeds == {<<>>} \cup {<<v>> : v \in Versions}

\* ------------------------------------------------------------------- Init
\* Updater.__init__ (auto_updata.py 444-452): nothing checked, nothing pending,
\* the exit hook registered; the installation holds the current version
Updater_init ==
    /\ is_checking = FALSE
    /\ update_info = <<>>
    /\ update_file = <<>>
    /\ thr = [t \in Threads |->
                [pc |-> "new", feed |-> <<>>, info |-> <<>>, file |-> <<>>,
                 outcome |-> "none"]]
    /\ nthreads = 0
    /\ callbacks \in [avail : BOOLEAN, complete : BOOLEAN]
    /\ avail_calls = [t \in Threads |-> <<>>]
    /\ complete_calls = [t \in Threads |-> 0]
    /\ host = "running"
    /\ apply_called = FALSE
    /\ CONFIG_file = CURRENT_VERSION
    /\ disk = {}
    /\ temp_dir = "none"
    /\ script = "none"
    /\ script_arg = <<>>
    /\ installed = CURRENT_VERSION
    /\ overwritten_live = FALSE
    /\ check_thread = <<>>
    /\ wait_result = <<>>

other_vars == <<callbacks, dl, bk, ap, rt, sh>>
wait_vars == <<check_thread, wait_result>>
host_vars == <<host, apply_called, CONFIG_file, temp_dir>>
script_vars == <<script, script_arg, installed, overwritten_live>>
call_vars == <<avail_calls, complete_calls>>
field_vars == <<is_checking, update_info, update_file>>

\* ---------------------------------------------------------- Updater, host side
\* Updater.start_check (auto_updata.py 454-464): rejected while _is_checking,
\* otherwise a new daemon thread is created and started
start_check ==
    /\ host = "running"
    /\ wait_result' = <<>>
    /\ IF start_check_rejects
       THEN UNCHANGED <<thr, nthreads, check_thread>>
       ELSE /\ nthreads < MaxThreads
            /\ nthreads' = nthreads + 1
            /\ check_thread' = <<nthreads + 1>>
            /\ thr' = [thr EXCEPT ![nthreads + 1].pc = "started"]
    /\ UNCHANGED <<field_vars, other_vars, call_vars, host_vars, disk, script_vars>>

\* Thread.is_alive(): started and not yet ended
is_alive(t) == Running(t)

\* Updater.wait_for_check (auto_updata.py 474-477): without a thread, or with
\* one that has ended, True at once; otherwise the host blocks in join
wait_for_check ==
    /\ host = "running"
    /\ IF check_thread # <<>> /\ is_alive(check_thread[1])
       THEN host' = "joining" /\ wait_result' = <<>>
       ELSE host' = host /\ wait_result' = <<TRUE>>
    /\ UNCHANGED <<field_vars, thr, nthreads, other_vars, call_vars, check_thread,
                   apply_called, CONFIG_file, temp_dir, disk, script_vars>>

\* auto_updata.py 475-476: join returns when the thread has ended or, with a
\* timeout, when it has elapsed; the result is whether the thread has ended
wait_join_return ==
    /\ host = "joining"
    /\ \E timeout_elapsed \in BOOLEAN :
         timeout_elapsed \/ ~is_alive(check_thread[1])
    /\ wait_result' = <<~is_alive(check_thread[1])>>
    /\ host' = "running"
    /\ UNCHANGED <<field_vars, thr, nthreads, other_vars, call_vars, check_thread,
                   apply_called, CONFIG_file, temp_dir, disk, script_vars>>

\* ------------------------------------------------- Updater._check_update (worker)
\* auto_updata.py 481: the first statement of the thread sets the flag
check_begin(t) ==
    /\ thr[t].pc = "started"
    /\ is_checking' = TRUE
    /\ thr' = [thr EXCEPT ![t].pc = "check"]
    /\ UNCHANGED <<update_info, update_file, nthreads, other_vars, wait_vars,
                   call_vars, host_vars, disk, script_vars>>

\* auto_updata.py 487-491, 508-512: check_update() answers; a descriptor goes
\* on to the download, anything else (or an exception) ends the check
check_feed(t) ==
    /\ thr[t].pc = "check"
    /\ \E feed \in Feeds, raises \in BOOLEAN :
         LET info == check_update_result(feed) IN
         thr' = [thr EXCEPT ![t] =
                   IF raises
                   THEN [pc |-> "finally", feed |-> <<>>, info |-> <<>>,
                         file |-> <<>>, outcome |-> "exception"]
                   ELSE IF Truthy(info)
                   THEN [pc |-> "download", feed |-> feed, info |-> info,
                         file |-> <<>>, outcome |-> "none"]
                   ELSE [pc |-> "finally", feed |-> feed, info |-> <<>>,
                         file |-> <<>>, outcome |-> "no_update"]]
    /\ UNCHANGED <<field_vars, nthreads, other_vars, wait_vars, call_vars,
                   host_vars, disk, script_vars>>

\* auto_updata.py 497, 506-507: download_update returns the path of a fresh
\* temporary file, or None leaving no file behind
check_download(t) ==
    /\ thr[t].pc = "download"
    /\ \/ /\ thr' = [thr EXCEPT ![t].pc = "rec_info", ![t].file = <<t>>,
                                 ![t].outcome = "pending"]
          /\ disk' = disk \cup {t}
       \/ /\ thr' = [thr EXCEPT ![t].pc = "finally", ![t].info = <<>>,
                                 ![t].outcome = "download_failed"]
          /\ disk' = disk
    /\ UNCHANGED <<field_vars, nthreads, other_vars, wait_vars, call_vars,
                   host_vars, script_vars>>

\* auto_updata.py 499
check_record_info(t) ==
    /\ thr[t].pc = "rec_info"
    /\ update_info' = thr[t].info
    /\ thr' = [thr EXCEPT ![t].pc = "rec_file"]
    /\ UNCHANGED <<is_checking, update_file, nthreads, other_vars, wait_vars,
                   call_vars, host_vars, disk, script_vars>>

\* auto_updata.py 500
check_record_file(t) ==
    /\ thr[t].pc = "rec_file"
    /\ update_file' = thr[t].file
    /\ thr' = [thr EXCEPT ![t].pc = "notify"]
    /\ UNCHANGED <<is_checking, update_info, nthreads, other_vars, wait_vars,
                   call_vars, host_vars, disk, script_vars>>

\* auto_updata.py 504-505, 511-512: the callback, if registered, is called with
\* the thread's descriptor; an exception it raises is caught and logged
check_notify(t) ==
    /\ thr[t].pc = "notify"
    /\ avail_calls' = IF callbacks.avail
                      THEN [avail_calls EXCEPT ![t] = Append(@, thr[t].info[1])]
                      ELSE avail_calls
    /\ thr' = [thr EXCEPT ![t].pc = "finally"]
    /\ UNCHANGED <<field_vars, nthreads, other_vars, wait_vars, complete_calls,
                   host_vars, disk, script_vars>>

\* (mutant) the flag is left set when the check ends
check_finally_keeps_flag(t) ==
    /\ thr[t].pc = "finally"
    /\ complete_calls' = IF callbacks.complete
                         THEN [complete_calls EXCEPT ![t] = @ + 1]
                         ELSE complete_calls
    /\ thr' = [thr EXCEPT ![t].pc = "done"]
    /\ UNCHANGED <<field_vars, nthreads, other_vars, wait_vars,
                   avail_calls, host_vars, disk, script_vars>>

\* (mutant) the completion callback called only after a recorded update
check_finally_mut(t) ==
    /\ thr[t].pc = "finally"
    /\ is_checking' = FALSE
    /\ complete_calls' = IF callbacks.complete /\ thr[t].outcome = "pending"
                         THEN [complete_calls EXCEPT ![t] = @ + 1]
                         ELSE complete_calls
    /\ thr' = [thr EXCEPT ![t].pc = "done"]
    /\ UNCHANGED <<update_info, update_file, nthreads, other_vars, wait_vars,
                   avail_calls, host_vars, disk, script_vars>>

\* auto_updata.py 514-519: finally, on every path
check_finally(t) ==
    /\ thr[t].pc = "finally"
    /\ is_checking' = FALSE
    /\ complete_calls' = IF callbacks.complete
                         THEN [complete_calls EXCEPT ![t] = @ + 1]
                         ELSE complete_calls
    /\ thr' = [thr EXCEPT ![t].pc = "done"]
    /\ UNCHANGED <<update_info, update_file, nthreads, other_vars, wait_vars,
                   avail_calls, host_vars, disk, script_vars>>

\* ------------------------------------------------------ exit hook and apply
\* the host's main thread returns: the interpreter runs the atexit handlers
\* while daemon threads are still alive
host_exit ==
    /\ host = "running"
    /\ host' = "atexit"
    /\ wait_result' = <<>>
    /\ UNCHANGED <<field_vars, thr, nthreads, other_vars, call_vars, check_thread,
                   apply_called, CONFIG_file, temp_dir, disk, script_vars>>

\* apply_update up to and including Popen (auto_updata.py 366-425): a missing
\* artifact raises before anything is created; otherwise the scratch directory
\* is created, the script written, update_version persists the new version and
\* the script is launched. The call is still inside the TemporaryDirectory block.
apply_update(zip, new_version) ==
    IF zip \notin disk
    THEN /\ host' = "exiting"
         /\ UNCHANGED <<CONFIG_file, temp_dir, script, script_arg>>
    ELSE /\ temp_dir' = "empty"
         /\ CONFIG_file' = new_version
         /\ script' = "launched"
         /\ script_arg' = <<zip, new_version>>
         /\ host' = "launched"

\* Updater._apply_pending_update (auto_updata.py 521-534), run by atexit
apply_pending_update ==
    /\ host = "atexit"
    /\ IF hook_applies
       THEN /\ apply_called' = TRUE
            /\ apply_update(update_file[1], update_info[1])
       ELSE /\ host' = "exiting"
            /\ UNCHANGED <<apply_called, CONFIG_file, temp_dir, script, script_arg>>
    /\ UNCHANGED <<field_vars, thr, nthreads, other_vars, wait_vars, call_vars,
                   disk, installed, overwritten_live>>

\* auto_updata.py 382, 427: leaving the with block removes the scratch directory
\* and everything in it; apply_update returns
apply_return ==
    /\ host = "launched"
    /\ temp_dir' = "deleted"
    /\ host' = "exiting"
    /\ UNCHANGED <<field_vars, thr, nthreads, other_vars, wait_vars, call_vars,
                   apply_called, CONFIG_file, disk, script_vars>>

\* the interpreter ends: daemon threads (auto_updata.py 462) die where they are
process_exit ==
    /\ host = "exiting"
    /\ host' = "exited"
    /\ thr' = [t \in Threads |->
                 IF Running(t) THEN [thr[t] EXCEPT !.pc = "killed"] ELSE thr[t]]
    /\ UNCHANGED <<field_vars, nthreads, other_vars, wait_vars, call_vars,
                   apply_called, CONFIG_file, temp_dir, disk, script_vars>>

\* ------------------------------------------------------- the launched script
\* auto_updata.py 391-396: the script starts with Expand-Archive, without waiting
\* for its parent; -Force recreates a destination that is gone. A missing
\* archive is an error: goto CLEANUP
script_extract ==
    /\ script = "launched"
    /\ IF script_arg[1] \in disk
       THEN script' = "extracted" /\ temp_dir' = "full"
       ELSE script' = "failed" /\ temp_dir' = temp_dir
    /\ UNCHANGED <<field_vars, thr, nthreads, other_vars, wait_vars, call_vars,
                   host, apply_called, CONFIG_file, disk, script_arg,
                   installed, overwritten_live>>

\* auto_updata.py 398-403: xcopy of the scratch directory over the application
\* directory; a scratch directory that is gone is an error: goto CLEANUP
script_copy ==
    /\ script = "extracted"
    /\ IF temp_dir = "full"
       THEN /\ script' = "copied"
            /\ installed' = script_arg[2]
            /\ overwritten_live' = (overwritten_live \/ host # "exited")
       ELSE /\ script' = "failed"
            /\ UNCHANGED <<installed, overwritten_live>>
    /\ UNCHANGED <<field_vars, thr, nthreads, other_vars, wait_vars, call_vars,
                   host_vars, disk, script_arg>>

\* auto_updata.py 405-410: CLEANUP, reached on every path
script_cleanup ==
    /\ script \in {"copied", "failed"}
    /\ script' = "done"
    /\ disk' = disk \ {script_arg[1]}
    /\ temp_dir' = "deleted"
    /\ UNCHANGED <<field_vars, thr, nthreads, other_vars, wait_vars, call_vars,
                   host, apply_called, CONFIG_file, script_arg,
                   installed, overwritten_live>>

\* ================================================================ download
\* iter_bytes(chunk_size=8192): the body arrives in pieces of ChunkSize bytes,
\* the last one possibly shorter (scaled down to 2 bytes)
ChunkSize == 2

Bytes == {0, 1}

RECURSIVE Bodies(_)
Bodies(n) ==
    IF n = 0 THEN {<<>>}
    ELSE Bodies(n - 1) \cup
         {Append(b, x) : b \in {c \in Bodies(n - 1) : Len(c) = n - 1}, x \in Bytes}

Min(a, b) == IF a < b THEN a ELSE b

\* the chunks iter_bytes yields for a body, in order
NumChunks(body) == (Len(body) + ChunkSize - 1) \div ChunkSize
Chunk(body, k) ==
    SubSeq(body, (k - 1) * ChunkSize + 1, Min(k * ChunkSize, Len(body)))

\* hashlib.sha256().hexdigest(): an ideal digest, one value per byte string,
\* written in lower-case hex digits
hexdigest(bytes) == [hex |-> bytes, upper |-> FALSE]

\* str.upper() of a hex digest
upper(h) == [h EXCEPT !.upper = TRUE]

\* zipfile.is_zipfile: the file ends with an end-of-central-directory record,
\* which is what a final byte 1 stands for
is_zipfile(bytes) == Len(bytes) > 0 /\ bytes[Len(bytes)] = 1

\* str.lower() of an entry's extension
lower(ext) == IF ext = "EXE" THEN "exe" ELSE ext

\* updata.py 279
dangerous_extensions == {"exe", "dll", "bat", "cmd", "sh", "vbs", "js"}

\* an archive entry name: its extension, whether '../' occurs in it and whether
\* it starts with '/'
EntrySafe == [ext |-> "txt", traversal |-> FALSE, absolute |-> FALSE]
EntryExe == [ext |-> "EXE", traversal |-> FALSE, absolute |-> FALSE]
EntryDll == [ext |-> "dll", traversal |-> FALSE, absolute |-> FALSE]
EntryTraversal == [ext |-> "txt", traversal |-> TRUE, absolute |-> FALSE]
EntryAbsolute == [ext |-> "txt", traversal |-> FALSE, absolute |-> TRUE]

\* the entry lists (zf.namelist()) of the archives a server may send
Archives == {{EntrySafe}, {EntrySafe, EntryExe}, {EntryDll},
             {EntrySafe, EntryTraversal}, {EntryAbsolute}}

\* verify_zip_contents (updata.py 274-291): False at the first entry with a
\* denylisted extension, with '../' in its name or starting with '/'
verify_zip_contents(names) ==
    \A e \in names :
        /\ lower(e.ext) \notin dangerous_extensions
        /\ ~(e.traversal \/ e.absolute)

\* a body with one byte altered
AlterAt(body, k) == [body EXCEPT ![k] = 1 - @]

\* the "sha256" values a descriptor may carry for a body: none, the body's
\* digest in lower or upper case, the digest of the body with one byte altered
Sha256Fields(body) ==
    {<<>>, <<hexdigest(body)>>, <<upper(hexdigest(body))>>}
    \cup {<<hexdigest(AlterAt(body, k))>> : k \in 1..Len(body)}

dl_idle ==
    [pc |-> "idle", variant |-> "none", max |-> 0, content_length |-> 0,
     body |-> <<>>, sha256 |-> <<>>, names |-> {}, i |-> 0, written |-> <<>>,
     hashed |-> <<>>, tmp |-> "none", result |-> <<>>]

\* the calls: either variant of download_update, any configured
\* MAX_DOWNLOAD_SIZE, any content-length header (0 when missing), any body
DlCalls ==
    {[dl_idle EXCEPT !.pc = "start", !.variant = v, !.max = m,
                     !.content_length = c, !.body = b] :
        v \in {"auto_updata", "updata"}, m \in 1..MaxLen,
        c \in 0..(MaxLen + 1), b \in Bodies(MaxLen)}

dl_rest == <<cvars, bk, ap, rt, sh>>

\* auto_updata.py 303-306, updata.py 352-353: the call starts with a descriptor
\* and a server holding an archive; NamedTemporaryFile creates the file
dl_open ==
    /\ dl.pc = "start"
    /\ \E sha \in Sha256Fields(dl.body), names \in Archives :
         dl' = [dl EXCEPT !.pc = "request", !.sha256 = sha, !.names = names,
                          !.tmp = "exists"]
    /\ UNCHANGED dl_rest

\* auto_updata.py 308-316, updata.py 355-370: the request fails (connection,
\* HTTP status) or answers; a declared length over the limit raises
dl_request ==
    /\ dl.pc = "request"
    /\ \E fails \in BOOLEAN :
         dl' = [dl EXCEPT !.pc = IF fails \/ dl.content_length > dl.max
                                 THEN "except" ELSE "stream"]
    /\ UNCHANGED dl_rest

\* auto_updata.py 319-322: one chunk is written to the temporary file; the
\* connection may break instead
dl_chunk ==
    /\ dl.pc = "stream" /\ dl.variant = "auto_updata"
    /\ dl.i < NumChunks(dl.body)
    /\ \/ dl' = [dl EXCEPT !.i = @ + 1,
                           !.written = @ \o Chunk(dl.body, dl.i + 1)]
       \/ dl' = [dl EXCEPT !.pc = "except"]
    /\ UNCHANGED dl_rest

\* auto_updata.py 324-330: the stream is over; the file is returned if it is a
\* zip archive
dl_verify ==
    /\ dl.pc = "stream" /\ dl.variant = "auto_updata"
    /\ dl.i = NumChunks(dl.body)
    /\ dl' = IF is_zipfile(dl.written)
             THEN [dl EXCEPT !.pc = "returned", !.result = <<"tmp_path">>]
             ELSE [dl EXCEPT !.pc = "except"]
    /\ UNCHANGED dl_rest

\* updata.py 372-382: the response was closed when its with block ended at
\* line 370, so iter_bytes raises StreamClosed (httpx >= 0.24, setup.py). Were
\* the stream still readable, the loop at 376-379 only counts the bytes,
\* raising over the limit, and lines 380-382, outside the loop, hash and write
\* the last chunk alone (no chunk at all is a NameError)
dl_stream_updata ==
    /\ dl.pc = "stream" /\ dl.variant = "updata"
    /\ \/ dl' = [dl EXCEPT !.pc = "except"]
       \/ dl' = IF Len(dl.body) > dl.max \/ NumChunks(dl.body) = 0
                THEN [dl EXCEPT !.pc = "except", !.i = NumChunks(dl.body)]
                ELSE [dl EXCEPT !.pc = "verify", !.i = NumChunks(dl.body),
                        !.written = Chunk(dl.body, NumChunks(dl.body)),
                        !.hashed = Chunk(dl.body, NumChunks(dl.body))]
    /\ UNCHANGED dl_rest

\* updata.py 384-401: the digest of what was hashed against the descriptor's
\* (a descriptor without one is a KeyError), then zip validity, then the
\* content screen
dl_verify_updata ==
    /\ dl.pc = "verify" /\ dl.variant = "updata"
    /\ dl' = IF /\ dl.sha256 # <<>>
                /\ upper(hexdigest(dl.hashed)) = upper(dl.sha256[1])
                /\ is_zipfile(dl.written)
                /\ verify_zip_contents(dl.names)
             THEN [dl EXCEPT !.pc = "returned", !.result = <<"tmp_path">>]
             ELSE [dl EXCEPT !.pc = "except"]
    /\ UNCHANGED dl_rest

\* (mutant) the handler returns None without removing the file
dl_except_mut ==
    /\ dl.pc = "except"
    /\ dl' = [dl EXCEPT !.pc = "returned", !.result = <<>>]
    /\ UNCHANGED dl_rest

\* auto_updata.py 332-339, updata.py 402-406: every exception ends here: the
\* temporary file is removed and None returned
dl_except ==
    /\ dl.pc = "except"
    /\ dl' = [dl EXCEPT !.pc = "returned", !.result = <<>>,
                        !.tmp = IF dl.tmp = "exists" THEN "removed" ELSE @]
    /\ UNCHANGED dl_rest

NextDownload ==
    \/ dl_open
    \/ dl_request
    \/ dl_chunk
    \/ dl_verify
    \/ dl_stream_updata
    \/ dl_verify_updata
    \/ dl_except

\* ================================================================== backup
\* A file of the installation tree: the parts of its relative path and the
\* characters of the path as hashed (str(file.relative_to(path)))
FileA == [parts |-> <<"a">>, str |-> <<"a">>]
FileAB == [parts |-> <<"ab">>, str |-> <<"a", "b">>]
FileGit == [parts |-> <<".git", "b">>, str |-> <<".", "g", "i", "t", "/", "b">>]

\* sorted(path.rglob('*')): the files in path order
SortedFiles == <<FileGit, FileA, FileAB>>
Files == {SortedFiles[k] : k \in 1..Len(SortedFiles)}

\* what a file may hold: nothing, or one byte
Contents == {<<>>, <<"b">>}

\* a tree gives each file <<>> when it is absent, <<content>> otherwise
Trees == [Files -> {<<>>} \cup {<<c>> : c \in Contents}]
EmptyTree == [f \in Files |-> <<>>]

\* updata.py 223 and 250; the configured backup root is no part of any path here
default_exclude_dirs == {".git", "__pycache__"}

Excluded(f, exclude_dirs) ==
    \E k \in 1..Len(f.parts) : f.parts[k] \in exclude_dirs

\* calculate_dir_hash (updata.py 215-232): the digest absorbs, file by file in
\* sorted order, the relative path and then the bytes of every file that is
\* present and not excluded
RECURSIVE hash_stream(_, _, _)
hash_stream(tree, exclude_dirs, k) ==
    IF k > Len(SortedFiles) THEN <<>>
    ELSE LET f == SortedFiles[k] IN
         (IF tree[f] # <<>> /\ ~Excluded(f, exclude_dirs)
          THEN f.str \o tree[f][1] ELSE <<>>)
         \o hash_stream(tree, exclude_dirs, k + 1)

calculate_dir_hash(tree, exclude_dirs) ==
    <<hexdigest(hash_stream(tree, exclude_dirs, 1))>>

\* updata.py 254-258: every file that is present and not excluded is copied
copy_tree(tree, exclude_dirs) ==
    [f \in Files |-> IF Excluded(f, exclude_dirs) THEN <<>> ELSE tree[f]]

\* 24 hours (updata.py 206), in the time unit of the model
DaySeconds == 2

Max(a, b) == IF a > b THEN a ELSE b

\* the position a bound n of a Python slice stands for in a list of length
\* len: a negative bound counts from the end
slice_index(len, n) == IF n >= 0 THEN Min(n, len) ELSE Max(len + n, 0)

\* updata.py 188-192: sorted(..., key=st_mtime, reverse=True) of backups with
\* distinct modification times
RECURSIVE sorted_reverse(_)
sorted_reverse(mtimes) ==
    IF mtimes = {} THEN <<>>
    ELSE LET m == CHOOSE x \in mtimes : \A y \in mtimes : y <= x
         IN <<m>> \o sorted_reverse(mtimes \ {m})

\* (mutant) one backup more than MAX_BACKUP_COUNT is kept
clean_old_backups_mut(backups, max_count, current_time) ==
    LET n == slice_index(Len(backups), max_count + 1) IN
    {k \in 1..Len(backups) :
        k <= n /\ ~(current_time - backups[k] > DaySeconds)}

\* clean_old_backups (updata.py 180-213) on the list of the backups'
\* modification times, newest first: backups[MAX_BACKUP_COUNT:] are removed,
\* then those of backups[:MAX_BACKUP_COUNT] that are more than 24 hours old.
\* The result is the set of the positions of the list that remain.
clean_old_backups(backups, max_count, current_time) ==
    LET n == slice_index(Len(backups), max_count) IN
    {k \in 1..Len(backups) :
        k <= n /\ ~(current_time - backups[k] > DaySeconds)}

\* the backups of the root that remain after the pruning of a call at Now
Remaining(others, max_count, now) ==
    LET backups == sorted_reverse(others \cup {now})
    IN {backups[k] : k \in clean_old_backups(backups, max_count, now)}

bk_idle ==
    [pc |-> "idle", source |-> EmptyTree, backup |-> EmptyTree, dir |-> "none",
     original_hash |-> <<>>, backup_hash |-> <<>>, result |-> <<>>,
     max_count |-> 0, max_age |-> 0, others |-> {}, backups |-> <<>>]

\* the time of the call; earlier backups were modified at 1..MaxOld + 1
Now == MaxOld + 2

\* the calls: any installation tree, any MAX_BACKUP_COUNT that validate_config
\* accepts (an int, updata.py 113), a MAX_BACKUP_AGE in the configuration file
\* (no code reads one), any earlier backups in the backup root
BkCalls ==
    {[bk_idle EXCEPT !.pc = "start", !.source = t, !.max_count = n,
                     !.max_age = a, !.others = o] :
        t \in Trees, n \in -1..MaxKeep,
        a \in {1, DaySeconds, DaySeconds + 1},
        o \in {x \in SUBSET (1..(MaxOld + 1)) : Cardinality(x) <= MaxOld}}

bk_rest == <<cvars, dl, ap, rt, sh>>

\* updata.py 239-246: the backup directory of this call is created
bk_mkdir ==
    /\ bk.pc = "start"
    /\ bk' = [bk EXCEPT !.pc = "hash", !.dir = "exists"]
    /\ UNCHANGED bk_rest

\* updata.py 250-251 (and 233-235): the digest of the installation tree; ""
\* when a file cannot be read
bk_hash_source ==
    /\ bk.pc = "hash"
    /\ \E fails \in BOOLEAN :
         bk' = [bk EXCEPT !.pc = "copy",
                  !.original_hash =
                     IF fails THEN <<>>
                     ELSE calculate_dir_hash(bk.source, default_exclude_dirs)]
    /\ UNCHANGED bk_rest

\* another process or thread writes a file of the installation tree between
\* the digest and the copy
bk_source_changes ==
    /\ bk.pc = "copy"
    /\ \E f \in Files, c \in Contents :
         /\ bk.source[f] # <<c>>
         /\ bk' = [bk EXCEPT !.source[f] = <<c>>]
    /\ UNCHANGED bk_rest

\* updata.py 254-258: the copy; an error while copying raises
bk_copy ==
    /\ bk.pc = "copy"
    /\ \E fails \in BOOLEAN :
         bk' = IF fails
               THEN [bk EXCEPT !.pc = "except"]
               ELSE [bk EXCEPT !.pc = "verify",
                       !.backup = copy_tree(bk.source, default_exclude_dirs)]
    /\ UNCHANGED bk_rest

\* a byte of the copy is damaged before it is verified
bk_copy_changes ==
    /\ bk.pc = "verify"
    /\ \E f \in Files, c \in Contents :
         /\ bk.backup[f] # <<>> /\ bk.backup[f] # <<c>>
         /\ bk' = [bk EXCEPT !.backup[f] = <<c>>]
    /\ UNCHANGED bk_rest

\* (mutant) the backup is accepted as soon as both digests could be computed
bk_verify_mut ==
    /\ bk.pc = "verify"
    /\ \E fails \in BOOLEAN :
         LET backup_hash == IF fails THEN <<>>
                            ELSE calculate_dir_hash(bk.backup, default_exclude_dirs)
             kept == Remaining(bk.others, bk.max_count, Now)
         IN bk' = IF bk.original_hash = <<>> \/ backup_hash = <<>>
                  THEN [bk EXCEPT !.pc = "except", !.backup_hash = backup_hash]
                  ELSE [bk EXCEPT !.pc = "returned", !.backup_hash = backup_hash,
                          !.result = <<"version_backup_dir">>,
                          !.backups = sorted_reverse(bk.others \cup {Now}),
                          !.others = kept \ {Now},
                          !.dir = IF Now \in kept THEN "exists" ELSE "deleted"]
    /\ UNCHANGED bk_rest

\* updata.py 260-267: the digest of the copy; unless both digests exist and
\* agree the call raises; otherwise clean_old_backups prunes the backup root,
\* the new backup among its directories (backups is the list it sorted), and
\* the path is returned
bk_verify ==
    /\ bk.pc = "verify"
    /\ \E fails \in BOOLEAN :
         LET backup_hash == IF fails THEN <<>>
                            ELSE calculate_dir_hash(bk.backup, default_exclude_dirs)
             kept == Remaining(bk.others, bk.max_count, Now)
         IN bk' = IF \/ bk.original_hash = <<>> \/ backup_hash = <<>>
                     \/ backup_hash # bk.original_hash
                  THEN [bk EXCEPT !.pc = "except", !.backup_hash = backup_hash]
                  ELSE [bk EXCEPT !.pc = "returned", !.backup_hash = backup_hash,
                          !.result = <<"version_backup_dir">>,
                          !.backups = sorted_reverse(bk.others \cup {Now}),
                          !.others = kept \ {Now},
                          !.dir = IF Now \in kept THEN "exists" ELSE "deleted"]
    /\ UNCHANGED bk_rest

\* updata.py 268-272: the call's backup directory is removed, None returned
bk_except ==
    /\ bk.pc = "except"
    /\ bk' = [bk EXCEPT !.pc = "returned", !.result = <<>>,
                        !.dir = IF bk.dir = "exists" THEN "deleted" ELSE @]
    /\ UNCHANGED bk_rest

NextBackup ==
    \/ bk_mkdir
    \/ bk_hash_source
    \/ bk_source_changes
    \/ bk_copy
    \/ bk_copy_changes
    \/ bk_verify
    \/ bk_except

\* =================================================================== apply
\* One call of apply_update and the run of the script it launches, in both
\* variants: apply_update(zip_path, new_version) of auto_updata/auto_updata.py
\* and apply_update(zip_path) of updata.py.
\*   zip_path     the artifact file: "exists" or "missing"
\*   backup_path  what backup_current_version returned: <<>> or <<"dir">>
\*   temp_dir     the scratch directory: "none", "empty", "full", "deleted"
\*   installed    the installation directory: <<v>> when it holds the files of
\*                version v, <<>> when a copy stopped half-way
\*   sc           the script's position; steps, the steps it has attempted;
\*                failed, the step that failed; status, its exit status
ap_idle ==
    [pc |-> "idle", variant |-> "none", zip_path |-> "missing", new_version |-> 0,
     backup_called |-> FALSE, backup_path |-> <<>>, backup_dir |-> "none",
     temp_dir |-> "none", script_path |-> "none",
     CONFIG_file |-> CURRENT_VERSION, installed |-> <<CURRENT_VERSION>>,
     sc |-> "none", steps |-> <<>>, failed |-> <<>>, restored |-> FALSE,
     status |-> <<>>]

\* the calls: either variant, the artifact still there or gone, a newer version
ApCalls ==
    {[ap_idle EXCEPT !.pc = "start", !.variant = v, !.zip_path = z,
                     !.new_version = n] :
        v \in {"auto_updata", "updata"}, z \in {"exists", "missing"},
        n \in {CURRENT_VERSION + 1, CURRENT_VERSION + 2}}

ap_rest == <<cvars, dl, bk, rt, sh>>

\* the artifact is removed by something else (a temp cleaner) before the
\* script has used it
zip_removed_externally ==
    /\ ap.pc # "idle" /\ ap.zip_path = "exists"
    /\ ap.sc \in {"none", "launched", "waited"}
    /\ ap' = [ap EXCEPT !.zip_path = "missing"]
    /\ UNCHANGED ap_rest

\* auto_updata.py 366-379: a missing artifact raises FileNotFoundError
ap_exists_check ==
    /\ ap.pc = "start" /\ ap.variant = "auto_updata"
    /\ ap' = [ap EXCEPT !.pc = IF ap.zip_path = "exists" THEN "mkdtemp" ELSE "except"]
    /\ UNCHANGED ap_rest

\* updata.py 410-415: backup_current_version() gives a verified backup or
\* None; without a backup the call returns
ap_backup ==
    /\ ap.pc = "start" /\ ap.variant = "updata"
    /\ \E backup_path \in {<<>>, <<"dir">>} :
         ap' = IF backup_path = <<>>
               THEN [ap EXCEPT !.pc = "returned", !.backup_called = TRUE]
               ELSE [ap EXCEPT !.pc = "mkdtemp", !.backup_called = TRUE,
                               !.backup_path = backup_path,
                               !.backup_dir = "exists"]
    /\ UNCHANGED ap_rest

\* auto_updata.py 382 (TemporaryDirectory), updata.py 422 (mkdtemp)
ap_mkdtemp ==
    /\ ap.pc = "mkdtemp"
    /\ ap' = [ap EXCEPT !.pc = "write", !.temp_dir = "empty"]
    /\ UNCHANGED ap_rest

\* auto_updata.py 414-415, updata.py 476-479: the script is written; a failure
\* raises
ap_write_script ==
    /\ ap.pc = "write"
    /\ \E fails \in BOOLEAN :
         ap' = IF fails THEN [ap EXCEPT !.pc = "except"]
               ELSE [ap EXCEPT !.script_path = "exists",
                       !.pc = IF ap.variant = "auto_updata"
                              THEN "update_version" ELSE "popen"]
    /\ UNCHANGED ap_rest

\* auto_updata.py 418 and 341-362: the new version is written to
\* update_config.json
update_version ==
    /\ ap.pc = "update_version"
    /\ ap' = [ap EXCEPT !.pc = "popen", !.CONFIG_file = ap.new_version]
    /\ UNCHANGED ap_rest

\* auto_updata.py 421-425, updata.py 482-488: the script is launched in a
\* process of its own, or Popen raises
ap_popen ==
    /\ ap.pc = "popen"
    /\ \E fails \in BOOLEAN :
         ap' = IF fails THEN [ap EXCEPT !.pc = "except"]
               ELSE [ap EXCEPT !.sc = "launched",
                       !.pc = IF ap.variant = "auto_updata"
                              THEN "with_exit" ELSE "returned"]
    /\ UNCHANGED ap_rest

\* auto_updata.py 382, 427: leaving the with block removes the scratch
\* directory, whatever the script has put into it
ap_with_exit ==
    /\ ap.pc = "with_exit"
    /\ ap' = [ap EXCEPT !.pc = "returned", !.temp_dir = "deleted"]
    /\ UNCHANGED ap_rest

\* auto_updata.py 429-430: the exception is logged (a with block that was
\* entered removes its directory); updata.py 490-495: the script file and the
\* scratch directory are removed
ap_except ==
    /\ ap.pc = "except"
    /\ ap' = [ap EXCEPT !.pc = "returned",
                !.temp_dir = IF ap.temp_dir = "none" THEN @ ELSE "deleted",
                !.script_path = IF ap.variant = "updata" /\ @ = "exists"
                                THEN "deleted" ELSE @]
    /\ UNCHANGED ap_rest

\* what a failing step of the script leads to: updata.py 434-439, 445-451,
\* 457-463 restore the backup and exit; auto_updata.py 393-396, 400-403 go to
\* CLEANUP
OnFailure(step) ==
    [ap EXCEPT !.steps = Append(@, step), !.failed = <<step>>,
               !.sc = IF ap.variant = "updata" THEN "restoring" ELSE "cleanup"]

\* updata.py 429-430: timeout /t 5
sc_wait ==
    /\ ap.sc = "launched" /\ ap.variant = "updata"
    /\ ap' = [ap EXCEPT !.sc = "waited", !.steps = Append(@, "wait")]
    /\ UNCHANGED ap_rest

\* updata.py 432-440: if not exist zip
sc_verify ==
    /\ ap.sc = "waited"
    /\ ap' = IF ap.zip_path = "exists"
             THEN [ap EXCEPT !.sc = "verified", !.steps = Append(@, "verify")]
             ELSE OnFailure("verify")
    /\ UNCHANGED ap_rest

\* auto_updata.py 391-396 (the script's first step), updata.py 442-452:
\* Expand-Archive -Force into the scratch directory, which it creates when it
\* is gone; a missing or unreadable archive is an error
sc_extract ==
    /\ \/ ap.sc = "launched" /\ ap.variant = "auto_updata"
       \/ ap.sc = "verified"
    /\ \E fails \in BOOLEAN :
         ap' = IF fails \/ ap.zip_path # "exists"
               THEN OnFailure("extract")
               ELSE [ap EXCEPT !.sc = "extracted", !.temp_dir = "full",
                               !.steps = Append(@, "extract")]
    /\ UNCHANGED ap_rest

\* auto_updata.py 398-403, updata.py 454-464: xcopy of the scratch directory
\* over the installation directory; it fails without its source, and may fail
\* before or after it has replaced some files
sc_copy ==
    /\ ap.sc = "extracted"
    /\ \E outcome \in {"copied", "failed_first", "failed_midway"} :
         ap' = IF ap.temp_dir # "full" \/ outcome = "failed_first"
               THEN OnFailure("copy")
               ELSE IF outcome = "failed_midway"
               THEN [OnFailure("copy") EXCEPT !.installed = <<>>]
               ELSE [ap EXCEPT !.sc = "cleanup", !.steps = Append(@, "copy"),
                               !.installed = <<ap.new_version>>]
    /\ UNCHANGED ap_rest

\* updata.py 435-439, 447-451, 459-463: the backup is copied back, the scratch
\* directory removed, exit /b 1
sc_restore ==
    /\ ap.sc = "restoring"
    /\ ap' = [ap EXCEPT !.sc = "exited", !.steps = Append(@, "restore"),
                        !.restored = TRUE, !.installed = <<CURRENT_VERSION>>,
                        !.temp_dir = "deleted", !.status = <<1>>]
    /\ UNCHANGED ap_rest

\* auto_updata.py 405-410 (CLEANUP, also after a failure), updata.py 466-473:
\* the artifact, the scratch directory and (updata.py) the backup are removed;
\* the script deletes its own file and ends with status 0
sc_cleanup ==
    /\ ap.sc = "cleanup"
    /\ ap' = [ap EXCEPT !.sc = "exited", !.steps = Append(@, "cleanup"),
                        !.zip_path = "missing", !.temp_dir = "deleted",
                        !.script_path = "deleted",
                        !.backup_dir = IF @ = "exists" THEN "deleted" ELSE @,
                        !.status = <<0>>]
    /\ UNCHANGED ap_rest

NextApply ==
    \/ zip_removed_externally
    \/ ap_exists_check
    \/ ap_backup
    \/ ap_mkdtemp
    \/ ap_write_script
    \/ update_version
    \/ ap_popen
    \/ ap_with_exit
    \/ ap_except
    \/ sc_wait
    \/ sc_verify
    \/ sc_extract
    \/ sc_copy
    \/ sc_restore
    \/ sc_cleanup

\* check_update of the next run (auto_updata.py 276-284, updata.py 325-332),
\* whose CONFIG["CURRENT_VERSION"] is the version read from update_config.json
check_update_next_run(current, feed) ==
    IF feed = <<>> THEN <<>>
    ELSE IF ~is_valid_version(feed[1]) THEN <<>>
    ELSE IF feed[1] > current THEN feed
    ELSE <<>>

\* =================================================================== retry
\* One call of a function decorated with retry_operation, in both variants:
\* the wrapper of auto_updata/auto_updata.py 236-260 and that of updata.py
\* 293-310.
\*   i         the loop variable of  for i in range(max_retries)
\*   outcomes  what happened to the request of each call of the operation
\*   sleeps    the number of time.sleep(delay) calls
\*   last      what the last call of the operation did: <<"returned", value>>
\*             or <<"raised", error>>
\*   result    <<>> while the wrapper runs, then <<"returned", value>> or
\*             <<"raised", error>>
rt_idle ==
    [pc |-> "idle", variant |-> "none", operation |-> "none", max_retries |-> 0,
     i |-> 0, outcomes |-> <<>>, sleeps |-> 0, last |-> <<>>, result |-> <<>>]

\* the decorated functions, and a callable that lets its exceptions out, which
\* retry_operation accepts as well
Operations == {"check_update", "download_update", "raising"}

\* the calls: either wrapper, any operation, any valid MAX_RETRY
RtCalls ==
    {[rt_idle EXCEPT !.pc = "loop", !.variant = v, !.operation = op,
                     !.max_retries = n] :
        v \in {"auto_updata", "updata"}, op \in Operations, n \in 1..MaxRetry}

rt_rest == <<cvars, dl, bk, ap, sh>>

\* what the request of one attempt does: it answers with a result, answers
\* with nothing to return (no update, a rejected artifact), fails with a
\* network error (httpx.RequestError) or fails otherwise
Outcomes == {"result", "nothing", "RequestError", "OtherError"}

\* what the operation makes of it. check_update (auto_updata.py 285-298,
\* updata.py 333-346) and download_update (auto_updata.py 332-339, updata.py
\* 402-406) catch every exception themselves and return None
operation_does(operation, outcome) ==
    IF outcome = "result" THEN <<"returned", "result">>
    ELSE IF outcome = "nothing" THEN <<"returned", "None">>
    ELSE IF operation = "raising" THEN <<"raised", outcome>>
    ELSE <<"returned", "None">>

\* auto_updata.py 243-245, updata.py 303-305: the next turn of the loop calls
\* the operation
rt_call ==
    /\ rt.pc = "loop" /\ rt.i < rt.max_retries
    /\ \E outcome \in Outcomes :
         rt' = [rt EXCEPT !.pc = "called", !.outcomes = Append(@, outcome),
                          !.last = operation_does(rt.operation, outcome)]
    /\ UNCHANGED rt_rest

\* auto_updata.py 245-247, updata.py 305: what the operation returned is
\* returned, None included
rt_return ==
    /\ rt.pc = "called" /\ rt.last[1] = "returned"
    /\ rt' = [rt EXCEPT !.pc = "done", !.result = rt.last]
    /\ UNCHANGED rt_rest

\* auto_updata.py 248-255: a RequestError is followed by a sleep unless the
\* attempt was the last, anything else returns None; updata.py 306-310: any
\* exception is raised again after the last attempt and followed by a sleep
\* otherwise
rt_except ==
    /\ rt.pc = "called" /\ rt.last[1] = "raised"
    /\ rt' = IF rt.variant = "auto_updata"
             THEN IF rt.last[2] = "RequestError"
                  THEN [rt EXCEPT !.pc = "loop", !.i = @ + 1,
                          !.sleeps = IF rt.i < rt.max_retries - 1 THEN @ + 1 ELSE @]
                  ELSE [rt EXCEPT !.pc = "done", !.result = <<"returned", "None">>]
             ELSE IF rt.i = rt.max_retries - 1
                  THEN [rt EXCEPT !.pc = "done", !.result = rt.last]
                  ELSE [rt EXCEPT !.pc = "loop", !.i = @ + 1, !.sleeps = @ + 1]
    /\ UNCHANGED rt_rest

\* auto_updata.py 257-259: the loop is over, None is returned
rt_exhausted ==
    /\ rt.pc = "loop" /\ rt.i >= rt.max_retries
    /\ rt' = [rt EXCEPT !.pc = "done", !.result = <<"returned", "None">>]
    /\ UNCHANGED rt_rest

NextRetry ==
    \/ rt_call
    \/ rt_return
    \/ rt_except
    \/ rt_exhausted

\* ======================================================= shared backup root
\* Several calls of backup_current_version (updata.py 237-272), by one process
\* or by several instances, in one backup root, each followed by the script
\* that apply_update launches.
\*   time   the clock in seconds, as strftime("%Y%m%d_%H%M%S") prints it
\*   stamp  counts the writes to the root: the order of the st_mtime values
\*   root   the backup directories: [name, mtime, stamp, writers], writers the
\*          snapshots that created the directory or copied into it
\*   snap   per snapshot its position, its process id, the name of its
\*          directory, what it returned and the state of its script
Snapshots == 1..MaxSnapshots

NoSnapshot ==
    [pc |-> "idle", pid |-> 0, name |-> <<>>, result |-> <<>>, routine |-> "none"]

sh_idle ==
    [time |-> 0, stamp |-> 0, root |-> {}, max_count |-> 0,
     snap |-> [s \in Snapshots |-> NoSnapshot]]

\* the runs: the first snapshot belongs to process 1, every other one to any
\* process; MAX_BACKUP_COUNT is at least 1
ShRuns ==
    {[sh_idle EXCEPT !.max_count = n,
                     !.snap = [s \in Snapshots |->
                                 [NoSnapshot EXCEPT !.pc = "start", !.pid = pids[s]]]] :
        n \in 1..MaxKeep,
        pids \in {f \in [Snapshots -> Snapshots] : f[1] = 1}}

sh_rest == <<cvars, dl, bk, ap, rt>>

\* updata.py 243-245: backup_{CURRENT_VERSION}_{timestamp}_{pid}, the version
\* being the same in every instance
backup_name(time, pid) == <<CURRENT_VERSION, time, pid>>

DirNamed(name) == {d \in sh.root : d.name = name}

\* a process runs one call at a time: a snapshot starts when the earlier
\* snapshots of its process have returned
MayStart(s) ==
    \A u \in Snapshots :
        (u < s /\ sh.snap[u].pid = sh.snap[s].pid) => sh.snap[u].pc = "returned"

\* the clock reaches the next second
sh_tick ==
    /\ sh.time < MaxTime
    /\ \E s \in Snapshots : sh.snap[s].pc # "returned"
    /\ sh' = [sh EXCEPT !.time = @ + 1]
    /\ UNCHANGED sh_rest

\* updata.py 239-246: mkdir(exist_ok=True) creates the directory or takes the
\* one that has the name
sh_mkdir(s) ==
    /\ sh.snap[s].pc = "start" /\ MayStart(s)
    /\ LET name == backup_name(sh.time, sh.snap[s].pid) IN
       sh' = [sh EXCEPT
                !.snap[s].pc = "copy", !.snap[s].name = name,
                !.stamp = IF DirNamed(name) = {} THEN @ + 1 ELSE @,
                !.root = IF DirNamed(name) = {}
                         THEN @ \cup {[name |-> name, mtime |-> sh.time,
                                       stamp |-> sh.stamp + 1, writers |-> {s}]}
                         ELSE @]
    /\ UNCHANGED sh_rest

\* the root after clean_old_backups (updata.py 180-213) at the current time
PrunedRoot(root, max_count, time) ==
    LET stamps == sorted_reverse({d.stamp : d \in root})
        at(k) == CHOOSE d \in root : d.stamp = stamps[k]
        backups == [k \in 1..Len(stamps) |-> at(k).mtime]
    IN {at(k) : k \in clean_old_backups(backups, max_count, time)}

\* updata.py 248-267: the files are copied into the directory (created again
\* if it is gone), which gets a new modification time; if the digests agree
\* clean_old_backups prunes the root and the path is returned, else the call
\* raises
sh_copy_verify(s) ==
    /\ sh.snap[s].pc = "copy"
    /\ \E verified \in BOOLEAN :
         LET name == sh.snap[s].name
             old == DirNamed(name)
             dir == [name |-> name, mtime |-> sh.time, stamp |-> sh.stamp + 1,
                     writers |-> {s} \cup UNION {d.writers : d \in old}]
             copied == (sh.root \ old) \cup {dir}
         IN sh' = IF verified
                  THEN [sh EXCEPT !.stamp = @ + 1,
                          !.root = PrunedRoot(copied, sh.max_count, sh.time),
                          !.snap[s].pc = "returned",
                          !.snap[s].result = <<name>>]
                  ELSE [sh EXCEPT !.stamp = @ + 1, !.root = copied,
                          !.snap[s].pc = "except"]
    /\ UNCHANGED sh_rest

\* updata.py 268-272: the directory of that name is removed, None returned
sh_except(s) ==
    /\ sh.snap[s].pc = "except"
    /\ sh' = [sh EXCEPT !.root = @ \ DirNamed(sh.snap[s].name),
                        !.snap[s].pc = "returned"]
    /\ UNCHANGED sh_rest

\* updata.py 413-488: with a backup path apply_update launches the script
sh_launch(s) ==
    /\ sh.snap[s].pc = "returned" /\ sh.snap[s].result # <<>>
    /\ sh.snap[s].routine = "none"
    /\ sh' = [sh EXCEPT !.snap[s].routine = "launched"]
    /\ UNCHANGED sh_rest

\* updata.py 432-473: the script ends, after a restore from its backup (exit
\* /b 1) or after removing its backup (line 468)
sh_routine_ends(s) ==
    /\ sh.snap[s].routine = "launched"
    /\ \E restores \in BOOLEAN :
         sh' = [sh EXCEPT !.snap[s].routine = "finished",
                  !.root = IF restores THEN @ ELSE @ \ DirNamed(sh.snap[s].name)]
    /\ UNCHANGED sh_rest

NextShared ==
    \/ sh_tick
    \/ \E s \in Snapshots : sh_mkdir(s)
    \/ \E s \in Snapshots : sh_copy_verify(s)
    \/ \E s \in Snapshots : sh_except(s)
    \/ \E s \in Snapshots : sh_launch(s)
    \/ \E s \in Snapshots : sh_routine_ends(s)

\* ------------------------------------------------------------- specification
Next ==
    \/ start_check
    \/ \E t \in Threads : check_begin(t)
    \/ \E t \in Threads : check_feed(t)
    \/ \E t \in Threads : check_download(t)
    \/ \E t \in Threads : check_record_info(t)
    \/ \E t \in Threads : check_record_file(t)
    \/ \E t \in Threads : check_notify(t)
    \/ \E t \in Threads : check_finally(t)
    \/ wait_for_check
    \/ wait_join_return
    \/ host_exit
    \/ apply_pending_update
    \/ apply_return
    \/ process_exit
    \/ script_extract
    \/ script_copy
    \/ script_cleanup

Init ==
    /\ Updater_init
    /\ dl = dl_idle /\ bk = bk_idle /\ ap = ap_idle /\ rt = rt_idle /\ sh = sh_idle

\* the controller stands still while a single call is followed
Updater_idle == Updater_init /\ callbacks = [avail |-> TRUE, complete |-> TRUE]

InitDownload ==
    /\ Updater_idle /\ sh = sh_idle
    /\ dl \in DlCalls /\ bk = bk_idle /\ ap = ap_idle /\ rt = rt_idle

vars == <<cvars, dl, bk, ap, rt, sh>>

Spec == Init /\ [][Next]_vars

\* Updater._check_update of thread t, any of its steps
Updater_check_update(t) ==
    \/ check_begin(t) \/ check_feed(t) \/ check_download(t)
    \/ check_record_info(t) \/ check_record_file(t)
    \/ check_notify(t) \/ check_finally(t)

\* the scheduler lets every live thread run; each of its steps ends: a
\* request by its TIMEOUT, retry_operation after MAX_RETRY attempts
SpecFair == Spec /\ \A t \in Threads : WF_vars(Updater_check_update(t))

SpecDownload == InitDownload /\ [][NextDownload]_vars

InitBackup ==
    /\ Updater_idle /\ sh = sh_idle
    /\ dl = dl_idle /\ bk \in BkCalls /\ ap = ap_idle /\ rt = rt_idle

SpecBackup == InitBackup /\ [][NextBackup]_vars

InitApply ==
    /\ Updater_idle /\ sh = sh_idle
    /\ dl = dl_idle /\ bk = bk_idle /\ ap \in ApCalls /\ rt = rt_idle

SpecApply == InitApply /\ [][NextApply]_vars

InitRetry ==
    /\ Updater_idle /\ sh = sh_idle
    /\ dl = dl_idle /\ bk = bk_idle /\ ap = ap_idle /\ rt \in RtCalls

SpecRetry == InitRetry /\ [][NextRetry]_vars

InitShared ==
    /\ Updater_idle /\ sh \in ShRuns
    /\ dl = dl_idle /\ bk = bk_idle /\ ap = ap_idle /\ rt = rt_idle

SpecShared == InitShared /\ [][NextShared]_vars

\* ===================================================================== claims
Failing == {"no_update", "exception", "download_failed"}

\* C1: at most one background check is running at any time: a start_check
\* issued while a check is in flight, the thread started but not yet running
\* included, starts no new thread.
C1_AtMostOneCheckInFlight == Cardinality(RunningThreads) <= 1

\* C2: no file of the installation directory is overwritten while the host
\* process is still running: the script's copy step happens only after the
\* host has exited.
C2_NoOverwriteWhileHostRuns == ~overwritten_live

\* C3: the exit hook invokes apply_update if and only if both an artifact
\* path and a descriptor with a version are recorded (has_update) when it
\* runs; as long as it has not, no script is launched, no version persisted,
\* no scratch directory made and no file installed.
C3_HookAppliesIffPending ==
    /\ [][(host = "atexit" /\ host' # "atexit") => (apply_called' <=> has_update)]_vars
    /\ [](~apply_called =>
            /\ script = "none"
            /\ CONFIG_file = CURRENT_VERSION
            /\ installed = CURRENT_VERSION
            /\ temp_dir = "none")

C3_Witness_HookApplied ==
    /\ host = "launched"
    /\ apply_called /\ has_update
    /\ script = "launched"
    /\ CONFIG_file = update_info[1]

\* C4: when a check that found a newer version and downloaded its artifact
\* finishes, the controller holds that check's session: has_update is true,
\* update_info is the check's descriptor, update_file the check's file, and
\* the registered on_update_available was called exactly once with it.
C4_CheckEndsPendingInstall ==
    [][\A t \in Threads :
         (thr[t].pc = "finally" /\ thr'[t].pc = "done" /\ thr[t].outcome = "pending")
         => /\ has_update'
            /\ update_info' = thr[t].info
            /\ update_file' = thr[t].file
            /\ callbacks.avail => avail_calls'[t] = <<thr[t].info[1]>>]_vars

\* C5: a check with a failing outcome (no newer version, feed error, failed
\* download, exception) writes neither session field in any of its steps,
\* never calls on_update_available, and ends, the exception caught, by
\* calling the registered on_check_complete.
C5_FailedCheckRecordsNothing ==
    /\ [][\A t \in Threads :
            (thr'[t] # thr[t] /\ thr'[t].outcome \in Failing)
            => (update_info' = update_info /\ update_file' = update_file)]_vars
    /\ [](\A t \in Threads :
            thr[t].outcome \in Failing =>
              /\ avail_calls[t] = <<>>
              /\ thr[t].pc \in {"finally", "done", "killed"}
              /\ (thr[t].pc = "done" /\ callbacks.complete) => complete_calls[t] = 1)

C5_Witness_FailedCheckCompleted ==
    \E t \in Threads :
        /\ thr[t].pc = "done"
        /\ thr[t].outcome = "exception"
        /\ callbacks.complete /\ complete_calls[t] = 1
        /\ ~has_update

\* C6: the number of bytes written to the temporary artifact file never
\* exceeds MAX_DOWNLOAD_SIZE, whatever the content-length header says.
C6_WrittenWithinLimit == Len(dl.written) <= dl.max

\* C7: download_update returns an artifact for a descriptor carrying a digest
\* only if the SHA-256 digest of the whole streamed body equals that digest,
\* compared case-insensitively.
C7_ReturnedOnlyOnDigestMatch ==
    (dl.pc = "returned" /\ dl.result # <<>> /\ dl.sha256 # <<>>)
    => upper(hexdigest(dl.body)) = upper(dl.sha256[1])

\* C8: download_update returns no artifact for an archive that lists an entry
\* with a denylisted extension, a parent-directory traversal or an absolute
\* path.
UnsafeEntry(e) ==
    lower(e.ext) \in dangerous_extensions \/ e.traversal \/ e.absolute

C8_UnsafeArchiveRejected ==
    (dl.pc = "returned" /\ \E e \in dl.names : UnsafeEntry(e))
    => dl.result = <<>>

DigestsAgree ==
    /\ bk.original_hash # <<>>
    /\ bk.backup_hash # <<>>
    /\ bk.backup_hash = bk.original_hash

C10_BackupVerifiedOrRemoved ==
    bk.pc = "returned" =>
      /\ bk.result # <<>> =>
            /\ DigestsAgree
            /\ bk.backup_hash = calculate_dir_hash(bk.backup, default_exclude_dirs)
      /\ ~DigestsAgree => (bk.result = <<>> /\ bk.dir = "deleted")

C10_Witness_MismatchRemoved ==
    /\ bk.pc = "returned" /\ bk.result = <<>>
    /\ bk.original_hash # <<>> /\ bk.backup_hash # <<>>
    /\ bk.backup_hash # bk.original_hash
    /\ bk.dir = "deleted"

\* C13: once both session fields are recorded (PendingInstall) no step
\* changes or clears either of them and no start_check creates a new check.
C13_PendingInstallIsTerminal ==
    [][has_update =>
          /\ update_info' = update_info
          /\ update_file' = update_file
          /\ nthreads' = nthreads]_vars

\* C14: when the exit hook runs while a check is still in progress (started,
\* checking, downloading or between the writes of the two fields) it does not
\* call apply_update; when it does call it, both recorded fields are those of
\* one check that had recorded its session.
InProgress(t) == thr[t].pc \in {"started", "check", "download", "rec_info", "rec_file"}

Recorded(t) ==
    /\ thr[t].outcome = "pending"
    /\ thr[t].pc \in {"notify", "finally", "done"}

C14_HookSkipsUnfinishedCheck ==
    [][(host = "atexit" /\ host' # "atexit") =>
          /\ (\E t \in Threads : InProgress(t)) => ~apply_called'
          /\ apply_called' =>
                \E t \in Threads :
                    /\ Recorded(t)
                    /\ update_info = thr[t].info
                    /\ update_file = thr[t].file]_vars

\* C15: every started check ends (or dies with the process); the step that
\* ends a check, whatever its outcome, leaves _is_checking false; when no check
\* is running the flag is false and a start_check creates a thread, which
\* starts from the first statement with nothing recorded.
NewThread ==
    [pc |-> "started", feed |-> <<>>, info |-> <<>>, file |-> <<>>,
     outcome |-> "none"]

C15_CheckEndsAndFlagClears ==
    /\ \A t \in Threads :
          (thr[t].pc = "started") ~> (thr[t].pc \in {"done", "killed"})
    /\ [][\A t \in Threads :
            (thr[t].pc = "finally" /\ thr'[t].pc = "done") => ~is_checking']_vars
    /\ []((RunningThreads = {} /\ host # "exited") => ~is_checking)
    /\ []((RunningThreads = {} /\ host = "running" /\ nthreads < MaxThreads)
            => ENABLED (start_check /\ nthreads' = nthreads + 1))
    /\ [][nthreads' # nthreads =>
            (nthreads' = nthreads + 1 /\ thr'[nthreads'] = NewThread)]_vars

C15_Witness_SecondCheckAfterFailure ==
    /\ thr[1].pc = "done" /\ thr[1].outcome \in Failing
    /\ thr[2].pc = "done" /\ thr[2].outcome = "pending"
    /\ ~is_checking /\ has_update

\* C16: a return value of wait_for_check is true exactly when no thread
\* started by start_check is still running at the return.
C16_WaitResultIffNoCheckRunning ==
    [][(wait_result' # wait_result /\ wait_result' # <<>>) =>
          (wait_result'[1] <=> RunningThreads' = {})]_vars

\* C17: the step that asks the feed goes on to the download, with the feed's
\* descriptor, exactly when the feed's version is valid and greater than the
\* current one; otherwise the check ends as "no update", having changed no
\* session field and no file, calls no on_update_available and records
\* nothing later; two checks with the same answer have the same result.
Upgrade(feed) ==
    feed # <<>> /\ is_valid_version(feed[1]) /\ feed[1] > CURRENT_VERSION

Answered(t) ==
    thr[t].pc \notin {"new", "started", "check", "killed"} /\ thr[t].outcome # "exception"

C11_NoLaunchWithoutSnapshot ==
    /\ ap.sc # "none" => (ap.backup_called /\ ap.backup_path # <<>>)
    /\ (ap.backup_called /\ ap.backup_path = <<>>) =>
          /\ ap.script_path = "none" /\ ap.sc = "none"
          /\ ap.CONFIG_file = CURRENT_VERSION
          /\ ap.installed = <<CURRENT_VERSION>>

\* C12: when the call has returned and no script is running, and the
\* installation does not hold the new version's files, the persisted
\* CURRENT_VERSION is still the old one, so that the next run's check_update
\* reports the same feed as an update.
ApplyOver == ap.pc = "returned" /\ ap.sc \in {"none", "exited"}

C12_FailedApplyIsRetried ==
    (ApplyOver /\ ap.installed # <<ap.new_version>>) =>
        /\ ap.CONFIG_file = CURRENT_VERSION
        /\ check_update_next_run(ap.CONFIG_file, <<ap.new_version>>)
              = <<ap.new_version>>

\* C19: the script attempts its steps in the order wait, verify, extract,
\* copy; after a step of verify, extract, copy has failed, the script restores
\* the backup and exits with a non-zero status, the failed step being the last
\* of these it attempted.
StepOrder == <<"wait", "verify", "extract", "copy">>

IsMainStep(x) == x \in {"wait", "verify", "extract", "copy"}

MainSteps == SelectSeq(ap.steps, IsMainStep)

C19_FailedStepRestoresAndStops ==
    /\ Len(MainSteps) <= Len(StepOrder)
    /\ MainSteps = SubSeq(StepOrder, 1, Len(MainSteps))
    /\ (ap.failed # <<>>) =>
          /\ MainSteps[Len(MainSteps)] = ap.failed[1]
          /\ ap.sc \in {"restoring", "exited"}
          /\ ap.sc = "exited" =>
                /\ ap.restored /\ ap.installed = <<CURRENT_VERSION>>
                /\ ap.status # <<>> /\ ap.status[1] # 0

\* C20: whenever the script has been launched the new version is already in
\* the configuration file, and an installation that holds the new version's
\* files has that version recorded.
C20_VersionPersistedBeforeLaunch ==
    /\ ap.sc # "none" => ap.CONFIG_file = ap.new_version
    /\ ap.installed = <<ap.new_version>> => ap.CONFIG_file = ap.new_version

\* C18: for a feed fetch or a download, when every attempt failed with a
\* network error the wrapper ends, reporting failure, after exactly
\* MAX_RETRY attempts with a delay between consecutive ones; an attempt that
\* succeeded is the last one made and its result is what is returned.
AllNetworkErrors ==
    \A k \in 1..Len(rt.outcomes) : rt.outcomes[k] = "RequestError"

C18_NetworkErrorRetried ==
    rt.operation \in {"check_update", "download_update"} =>
      /\ (rt.pc = "done" /\ AllNetworkErrors) =>
            /\ Len(rt.outcomes) = rt.max_retries
            /\ rt.sleeps = rt.max_retries - 1
            /\ rt.result # <<"returned", "result">>
      /\ \A k \in 1..Len(rt.outcomes) :
            rt.outcomes[k] = "result" =>
              /\ k = Len(rt.outcomes)
              /\ rt.pc = "done" => rt.result = <<"returned", "result">>

\* the backups in the backup root when backup_current_version has returned
BackupsLeft == bk.others \cup (IF bk.dir = "exists" THEN {Now} ELSE {})

Pruned == bk.pc = "returned" /\ bk.result # <<>>

\* no backup that clean_old_backups found is older than 24 hours or than the
\* configured MAX_BACKUP_AGE
NoneExpired ==
    \A k \in 1..Len(bk.backups) :
        /\ Now - bk.backups[k] <= DaySeconds
        /\ Now - bk.backups[k] <= bk.max_age

C23_NoBackupOlderThanConfiguredAge ==
    Pruned => \A m \in BackupsLeft : Now - m <= bk.max_age

\* C27: when backup_current_version returns a path, the backup directory it
\* names exists.
C27_ReturnedBackupExists ==
    Pruned => bk.dir = "exists"

\* C24: when the stream is over and the descriptor carries no digest, the
\* download returns the artifact provided the size, zip-validity and
\* content-safety checks pass.
StreamOver ==
    \/ dl.variant = "auto_updata" /\ dl.pc = "stream" /\ dl.i = NumChunks(dl.body)
    \/ dl.pc = "verify"

C24_MissingDigestIsSkipped ==
    [][(/\ StreamOver /\ dl' # dl
        /\ dl.sha256 = <<>>
        /\ Len(dl.written) <= dl.max
        /\ is_zipfile(dl.written)
        /\ verify_zip_contents(dl.names))
       => (dl'.pc = "returned" /\ dl'.result # <<>>)]_vars

\* C21: a script that has ended has deleted its own file; one that ended
\* without a failed step has also deleted the artifact, the backup and the
\* scratch directory; a backup is deleted only after a copy step that
\* succeeded.
C21_RoutineCleansUpAndSelfDeletes ==
    /\ ap.sc = "exited" => ap.script_path = "deleted"
    /\ (ap.sc = "exited" /\ ap.failed = <<>>) =>
          /\ ap.zip_path = "missing"
          /\ ap.backup_dir # "exists"
          /\ ap.temp_dir = "deleted"
    /\ ap.backup_dir = "deleted" =>
          /\ ap.failed = <<>>
          /\ Len(MainSteps) > 0 /\ MainSteps[Len(MainSteps)] = "copy"

\* C29: while the launched script is running, no step of the in-process
\* apply_update deletes or changes the scratch directory.
ScriptRunning == ap.sc \notin {"none", "exited"}

C29_ScratchKeptWhileScriptRuns ==
    [][(ScriptRunning /\ ap'.sc = ap.sc /\ ap'.pc # ap.pc)
       => ap'.temp_dir = ap.temp_dir]_vars

\* C26: whenever has_update is true, the recorded descriptor and the recorded
\* file are those of one check whose download succeeded, and until the exit
\* hook has run that file exists.
C26_SessionConsistent ==
    has_update =>
        \E t \in Threads :
            /\ thr[t].outcome = "pending"
            /\ update_info = thr[t].info
            /\ update_file = thr[t].file
            /\ host \in {"running", "joining", "atexit"} => update_file[1] \in disk

\* C25: any two snapshots have backup directories of different names, and no
\* backup directory was created or written by more than one snapshot.
Named(s) == sh.snap[s].name # <<>>

DistinctNames ==
    \A s, u \in Snapshots :
        (s # u /\ Named(s) /\ Named(u)) => sh.snap[s].name # sh.snap[u].name

C25_SnapshotsUseDistinctDirectories ==
    /\ DistinctNames
    /\ \A d \in sh.root : Cardinality(d.writers) <= 1

\* C28: as long as a launched script has not ended, the backup directory it
\* was given exists (the snapshots having directories of their own).
C28_BackupKeptWhileRoutineRuns ==
    DistinctNames =>
        \A s \in Snapshots :
            sh.snap[s].routine = "launched" => DirNamed(sh.snap[s].name) # {}

====
